---- MODULE Spec2Model ----
(***************************************************************************)
(* csender: a synthetic syslog traffic generator.  The repository holds    *)
(* three programs that share one design:                                   *)
(*   "inline"  src/main.c:1-219        catalog built inside send_events,   *)
(*                                      no length option, no pacing        *)
(*   "global"  src/unnamed/part_000    catalog in gc_event_list, filled by *)
(*                                      InitializeEventList, loop breaks   *)
(*                                      on a timestamp failure             *)
(*   "paced"   src/main.c:221-633      --length option, synthesized body,  *)
(*                                      second-boundary detection, pacing  *)
(*                                      counters and statistics            *)
(* Messages, timestamps and option values are strings, built as the C     *)
(* code builds them.                                                       *)
(***************************************************************************)
EXTENDS Integers, Sequences, FiniteSets, TLC

(* ------------------------------ bounds -------------------------------- *)

\* Calls of timestamp_rfc3339 (loop iterations) explored in one run.
MaxCalls == 4

\* rand() returns a value in 0..RandBound in the synthesizer harness.
RandBound == 130

\* Where the counters of the unbounded loop stop being told apart.
LiveCap == 2

(* -------------------------- program constants ------------------------- *)

DATETIME_LENGTH == 28
SYSLOG_MSG_MAXLENGTH == 1024
SYSLOG_HEADER_LENGTH == 62
STATISTICS_INTERVAL == 1
RANDOM_EVENT_MIN_LENGTH == 100
RANDOM_EVENT_MAX_LENGTH == 225
NUM_EVENTS_IN_EVENTLIST == 8

Variants == {"inline", "global", "paced"}

(* --------------------------- input samples ---------------------------- *)

\* Values of optarg for -l/--length; <<>> in argv_length is "no -l option".
LengthArgs == {"63", "64", "1024", "1025", "-1", "abc"}

\* The wall clock, in seconds since local midnight of the day the run
\* starts, when the process starts.
StartSeconds == {43200, 43258}

\* The same, where generate_event is called on its own.
HarnessSeconds == {43259}

\* Whole seconds by which the wall clock may have advanced between two
\* consecutive readings (the clock is taken to be non-decreasing).
ClockSteps == {0, 1, 2, 60}

\* tv_nsec / 1000 of a reading.
Usecs == {4321}

\* Results of rand() in the whole-program specification.
RandSamples == {0, 24, 125}

(* ------------------------------ strings ------------------------------- *)

\* c repeated n times (memset of n bytes).
RECURSIVE Rep(_, _)
Rep(c, n) ==
  IF n <= 0 THEN ""
  ELSE LET h == Rep(c, n \div 2)
       IN  h \o h \o (IF n % 2 = 1 THEN c ELSE "")

DigitChars == <<"0", "1", "2", "3", "4", "5", "6", "7", "8", "9">>

\* printf's %ld of a non-negative value.
RECURSIVE Decimal(_)
Decimal(n) ==
  IF n < 10 THEN DigitChars[n + 1]
  ELSE Decimal(n \div 10) \o DigitChars[(n % 10) + 1]

\* printf's %<width>ld: padded on the left with pad up to width.
PadLeft(s, width, pad) == Rep(pad, width - Len(s)) \o s

\* printf's %02d.
TwoDigits(n) == PadLeft(Decimal(n), 2, "0")

\* snprintf( buf, size, ... ): at most size-1 characters are stored.
Snprintf(size, s) == IF Len(s) < size THEN s ELSE SubSeq(s, 1, size - 1)

\* The character whose ASCII code is code, for the codes 65..90.
AsciiUpper(code) == SubSeq("ABCDEFGHIJKLMNOPQRSTUVWXYZ", code - 64, code - 64)

DigitValue(c) == CHOOSE d \in 0..9 : DigitChars[d + 1] = c

IsDigit(c) == \E d \in 0..9 : DigitChars[d + 1] = c

\* The value of the leading decimal digits of s, continuing from acc.
RECURSIVE AtoiDigits(_, _)
AtoiDigits(s, acc) ==
  IF s = "" \/ ~IsDigit(Head(s)) THEN acc
  ELSE AtoiDigits(Tail(s), 10 * acc + DigitValue(Head(s)))

\* atoi: an optional sign, then the leading digits; 0 when there are none.
atoi(s) ==
  IF s # "" /\ Head(s) = "-" THEN 0 - AtoiDigits(Tail(s), 0)
  ELSE AtoiDigits(s, 0)

(* --------------------------- event catalog ---------------------------- *)

\* The 8 literal log lines; C index i is EventCatalog[i + 1].
EventCatalog ==
  << "Teardown UDP connection for faddr 80.58.4.34/37074 gaddr "
       \o "10.0.0.187/53 laddr 192.168.0.2/53",
     "192.168.0.2 Accessed URL 212.227.109.224:/scriptlib/"
       \o "ClientStdScripts.js",
     "Built outbound TCP connection 152083 for faddr "
       \o "212.227.109.224/80 gaddr 10.0.0.187/56684 laddr "
       \o "192.168.0.2/56684",
     "Teardown TCP connection 151957 faddr 212.227.109.224/80 gaddr "
       \o "10.0.0.187/56613 laddr 192.168.0.2/56613 duration 0:04:56 "
       \o "bytes 11069 (TCP Reset-I)",
     "Deny TCP (no connection) from 192.168.0.2/2799 to "
       \o "192.168.202.1/2244 flags SYN ACK on interface inside",
     "Built UDP connection for faddr 211.9.32.235/32770 gaddr "
       \o "10.0.0.187/53 laddr 192.168.0.2/53",
     "Authen Session End: user '', sid 1, elapsed 313 seconds",
     "Deny icmp src outside:Some-Cisco dst inside:10.0.0.187 "
       \o "(type 3, code 1) by access-group \"outside_access_in\"" >>

\* An array of char* that has not been assigned yet.
NoEvents == << >>

\* An initialization that stops short of the last entry.
InitializeEventListButLast ==
  SubSeq(EventCatalog, 1, NUM_EVENTS_IN_EVENTLIST - 1)

\* gc_event_list after InitializeEventList; events[] after the eight
\* assignments at the head of the inline send_events.
InitializeEventList == EventCatalog

(* ------------------------- timestamp generator ------------------------ *)

\* The calendar day of the run, as strftime's %F prints it.
RunDate == "2016-03-05"

\* localtime_r: the fields of struct tm the programs use.
LocalTime(sec) ==
  [tm_hour |-> (sec \div 3600) % 24,
   tm_min  |-> (sec \div 60) % 60,
   tm_sec  |-> sec % 60]

\* strftime( buf, DATETIME_LENGTH, "%FT%T.", &time ).
Strftime(tm) ==
  RunDate \o "T" \o TwoDigits(tm.tm_hour) \o ":" \o TwoDigits(tm.tm_min)
          \o ":" \o TwoDigits(tm.tm_sec) \o "."

\* The conversion of tv_nsec / 1000: "%.6ld", "%ld" and "%6ld".
UsecField(v, usec) ==
  CASE v = "inline" -> PadLeft(Decimal(usec), 6, "0")
    [] v = "global" -> Decimal(usec)
    [] v = "paced"  -> PadLeft(Decimal(usec), 6, " ")

\* The text timestamp_rfc3339 leaves in ap_output_buffer.
timestamp_text(v, reading) ==
  LET head == Strftime(LocalTime(reading.sec))
  IN  head \o Snprintf(DATETIME_LENGTH - Len(head),
                       UsecField(v, reading.usec) \o "Z")

\* SecondChanged without the test of the "no earlier call" sentinel.
SecondChangedNoSentinel(last, tm_sec) == last # tm_sec

\* *ap_output_second_changed_since_last_call of a successful call.
SecondChanged(last, tm_sec) == (last # tm_sec) /\ (last >= 0)

(* -------------------------- event synthesizer ------------------------- *)

\* min_event_length without the one body character.
min_event_length_NoBody == SYSLOG_HEADER_LENGTH + 1

\* The smallest value --length accepts.
min_event_length == SYSLOG_HEADER_LENGTH + 1 + 1

\* max_event_length counting the terminator's byte of the buffer.
max_event_length_WithTerminator == SYSLOG_MSG_MAXLENGTH + 1

\* The largest value --length accepts.
max_event_length == SYSLOG_MSG_MAXLENGTH

\* RandomEventLength with the upper end of the range left out.
RandomEventLengthExclusive(r) ==
  RANDOM_EVENT_MIN_LENGTH
    + (r % (RANDOM_EVENT_MAX_LENGTH - RANDOM_EVENT_MIN_LENGTH))

\* The total length generate_event_body picks when it is given 0.
RandomEventLength(r) ==
  RANDOM_EVENT_MIN_LENGTH
    + (r % (RANDOM_EVENT_MAX_LENGTH - RANDOM_EVENT_MIN_LENGTH + 1))

\* a_event_length after the first statement of generate_event_body.
EffectiveLength(len, r) == IF len = 0 THEN RandomEventLength(r) ELSE len

\* The character generate_event_body fills the body with.
BodyChar(r) == AsciiUpper(65 + (r % 25))

\* generate_event_body without the byte reserved for the newline.
generate_event_body_NoNewlineRoom(len, r) ==
  LET body_length == len - SYSLOG_HEADER_LENGTH
  IN  Rep(BodyChar(r), body_length) \o "\n"

\* What generate_event_body writes at a_output_body.
generate_event_body(len, r) ==
  LET body_length == len - (SYSLOG_HEADER_LENGTH + 1)
  IN  Rep(BodyChar(r), body_length) \o "\n"

\* The header all three programs print before the body.
EventHeader(ts) == "<13>" \o ts \o " localhost.localdomain my.app: "

\* The argument generate_event hands to generate_event_body.
BodyRequest(ev_len) == IF ev_len = -1 THEN 0 ELSE ev_len

\* The text generate_event leaves in a_output_event.
generate_event(ts, len, r) == EventHeader(ts) \o generate_event_body(len, r)

\* The text the catalog programs format before snprintf bounds it.
CatalogEventText(ts, events, r) ==
  EventHeader(ts) \o events[(r % NUM_EVENTS_IN_EVENTLIST) + 1] \o "\n"

\* CatalogEvent bounded by the size of the timestamp buffer instead.
CatalogEventTimestampSize(ts, events, r) ==
  Snprintf(DATETIME_LENGTH, CatalogEventText(ts, events, r))

\* snprintf( syslog_event, SYSLOG_MSG_MAXLENGTH, ... ) of the catalog programs.
CatalogEvent(ts, events, r) ==
  Snprintf(SYSLOG_MSG_MAXLENGTH, CatalogEventText(ts, events, r))

(* ---------------------------- pacing loop ----------------------------- *)

\* EmissionEnabled that lets the initial -1 through.
EmissionEnabledFromStart(nsc) == nsc >= -1

\* EmissionEnabled that waits for the second crossing.
EmissionEnabledAfterFirstSecond(nsc) == nsc >= 1

\* The guard of the emission block of the paced send_events.
EmissionEnabled(nsc) == nsc >= 0

\* A statistics block that does not ask for a crossing.
ReportDueWithoutCrossing(changed, nsc) ==
  nsc >= 1 /\ nsc % STATISTICS_INTERVAL = 0

\* The guard of the statistics block of the paced send_events.
ReportDue(changed, nsc) ==
  changed /\ nsc >= 1 /\ nsc % STATISTICS_INTERVAL = 0

\* Average rounded up instead of down.
AverageRoundedUp(events, secs) == (events + secs - 1) \div secs

\* The third value of the statistics line.
Average(events, secs) == events \div secs

(* ------------------------------- state -------------------------------- *)

VARIABLES
  variant,            \* which of the three programs runs
  argv_length,        \* << >>, or <<optarg>> of the -l/--length option
  pc,                 \* "start", "connect", "RUNNING", "STOPPED", "exited",
                      \* or "harness" (generate_event called on its own)
  event_length,       \* csender_arguments.event_length
  event_list,         \* events[] of the inline program, gc_event_list
  socket_fd,          \* socket_to_target_fd
  connect_attempts,   \* calls of create_socket_and_connect
  clock,              \* the latest reading of CLOCK_REALTIME: sec, usec
  last_call_second,   \* the static of the paced timestamp_rfc3339
  second_changed,     \* second_changed_since_last_timestamp
  num_second_changes, \* send_events' counter of boundaries
  num_events_sent,    \* send_events' counter of events
  timestamp,          \* char timestamp[ DATETIME_LENGTH ]
  syslog_event,       \* char syslog_event[ SYSLOG_MSG_MAXLENGTH + 1 ]
  a_event_length,     \* generate_event_body's parameter after its first if
  wire_count,         \* messages the transport was handed (calls of send)
  wire_before,        \* wire_count when the current iteration began
  truncated,          \* some snprintf of an event dropped characters
  printed,            \* << >>, or the statistics line this iteration printed
  num_reports,        \* statistics lines printed so far
  failure_reported,   \* "It was not possible to generate a new timestamp."
  invalid_length_reported, \* "Invalid event length."
  clock_failed,       \* some call of timestamp_rfc3339 has returned -1
  ts_calls,           \* calls of timestamp_rfc3339
  ts_ok,              \* those that returned 0
  ts_crossed,         \* those that reported a changed second
  distinct_seconds,   \* distinct whole seconds of the clock they observed
  to_return,          \* what the latest call of timestamp_rfc3339 returned
  send_failed,        \* some call of send has returned -1
  first_boundary,     \* -1, or the clock's second at the first crossing
  iters_since_boundary \* successful iterations since, and with, that one

config_vars == <<variant, argv_length>>

main_vars == <<event_length, event_list, socket_fd, connect_attempts,
               invalid_length_reported>>

loop_vars == <<clock, last_call_second, second_changed, num_second_changes,
               num_events_sent, timestamp, syslog_event, a_event_length,
               wire_count, wire_before, truncated, printed, num_reports,
               failure_reported, clock_failed, ts_calls, ts_ok, ts_crossed,
               distinct_seconds, to_return, send_failed, first_boundary,
               iters_since_boundary>>

vars == <<config_vars, pc, main_vars, loop_vars>>

\* The state every run starts from, but for its configuration and pc.
Boot ==
  /\ event_list = NoEvents
  /\ socket_fd = -1
  /\ connect_attempts = 0
  /\ last_call_second = -1
  /\ second_changed = FALSE
  /\ num_second_changes = -1
  /\ num_events_sent = 0
  /\ timestamp = ""
  /\ syslog_event = ""
  /\ a_event_length = 0
  /\ wire_count = 0
  /\ wire_before = 0
  /\ truncated = FALSE
  /\ printed = << >>
  /\ num_reports = 0
  /\ failure_reported = FALSE
  /\ invalid_length_reported = FALSE
  /\ clock_failed = FALSE
  /\ ts_calls = 0
  /\ ts_ok = 0
  /\ ts_crossed = 0
  /\ distinct_seconds = 0
  /\ to_return = 0
  /\ send_failed = FALSE
  /\ first_boundary = -1
  /\ iters_since_boundary = 0

Init ==
  /\ variant \in Variants
  /\ argv_length \in
       IF variant = "paced"
       THEN {<< >>} \cup {<<a>> : a \in LengthArgs}
       ELSE {<< >>}
  /\ pc = "start"
  /\ event_length = -1
  /\ clock \in {[sec |-> s, usec |-> 0] : s \in StartSeconds}
  /\ Boot

(* ------------------------------- main ---------------------------------- *)

\* main of src/main.c:198 : the argc test, then the connection.
MainInline ==
  /\ pc = "start"
  /\ variant = "inline"
  /\ \E argc_ok \in BOOLEAN :
       pc' = IF argc_ok THEN "connect" ELSE "exited"
  /\ UNCHANGED <<config_vars, main_vars, loop_vars>>

\* main of part_000: the argc test, InitializeEventList, then the connection.
MainGlobal ==
  /\ pc = "start"
  /\ variant = "global"
  /\ \E argc_ok \in BOOLEAN :
       /\ pc' = IF argc_ok THEN "connect" ELSE "exited"
       /\ event_list' = IF argc_ok THEN InitializeEventList ELSE event_list
  /\ UNCHANGED <<config_vars, event_length, socket_fd, connect_attempts,
                 invalid_length_reported, loop_vars>>

\* The -l case of process_argument_list: the value is kept when in range.
LengthAccepted(len) == ~(len < min_event_length \/ len > max_event_length)

\* main of src/main.c:612 up to the connection: process_argument_list.
\* others: whether -h or an unknown option stands before or after -l.
MainPaced ==
  /\ pc = "start"
  /\ variant = "paced"
  /\ \E others \in {"none", "rejected_before", "rejected_after"} :
       LET given    == argv_length # << >> /\ others # "rejected_before"
           len      == IF given THEN atoi(argv_length[1]) ELSE -1
           accepted == ~given \/ LengthAccepted(len)
       IN  /\ event_length' = IF accepted THEN len ELSE -1
           /\ invalid_length_reported' = ~accepted
           /\ pc' = IF accepted /\ others = "none" THEN "connect"
                    ELSE "exited"
  /\ UNCHANGED <<config_vars, event_list, socket_fd, connect_attempts,
                 loop_vars>>

\* create_socket_and_connect, and on success the entry of send_events.
Connect ==
  /\ pc = "connect"
  /\ connect_attempts' = connect_attempts + 1
  /\ \E connected \in BOOLEAN :
       /\ socket_fd' = IF connected THEN 3 ELSE -1
       /\ pc' = IF connected THEN "RUNNING" ELSE "exited"
       /\ event_list' = IF connected /\ variant = "inline"
                        THEN InitializeEventList ELSE event_list
  /\ UNCHANGED <<config_vars, event_length, invalid_length_reported,
                 loop_vars>>

(* ----------------------------- send_events ----------------------------- *)

\* What clock_gettime may return next: the clock never runs backwards.
Readings ==
  {rd \in [sec : {clock.sec + d : d \in ClockSteps}, usec : Usecs] :
     rd.sec = clock.sec => rd.usec >= clock.usec}

\* A counter followed up to cap. No counter of a run of at most MaxCalls
\* iterations passes MaxCalls, so there the counter is the program's own.
Capped(x, cap) == IF x > cap THEN cap ELSE x

\* The bookkeeping of a successful call of timestamp_rfc3339 that read rd.
CallSucceeds(rd, changed, cap) ==
  /\ clock' = rd
  /\ to_return' = 0
  /\ ts_calls' = Capped(ts_calls + 1, cap)
  /\ ts_ok' = Capped(ts_ok + 1, cap)
  /\ ts_crossed' = IF changed THEN Capped(ts_crossed + 1, cap)
                   ELSE ts_crossed
  /\ distinct_seconds' = IF ts_ok = 0 \/ rd.sec # clock.sec
                         THEN Capped(distinct_seconds + 1, cap)
                         ELSE distinct_seconds

\* A loop that counts only the messages send accepted.
CountsSendOnlyOnSuccess(send_ok) == send_ok

\* Whether the counter of events is incremented after a call of send that
\* returned send_ok: the result of send is not looked at.
CountsSend(send_ok) == TRUE

\* One successful iteration of the loop of the catalog programs: format
\* the event with a random catalog entry and send it.
CatalogStep(rd, r, send_ok, cap) ==
  LET ts   == timestamp_text(variant, rd)
      text == CatalogEventText(ts, event_list, r)
      ev   == CatalogEvent(ts, event_list, r)
  IN  /\ CallSucceeds(rd, FALSE, cap)
      /\ timestamp' = ts
      /\ syslog_event' = ev
      /\ truncated' = (truncated \/ ev # text)
      /\ wire_count' = Capped(wire_count + 1, cap)
      /\ wire_before' = wire_count' - 1
      /\ send_failed' = (send_failed \/ ~send_ok)
      /\ UNCHANGED <<config_vars, pc, main_vars, last_call_second,
                     second_changed, num_second_changes, num_events_sent,
                     a_event_length, printed, num_reports, failure_reported,
                     clock_failed, first_boundary, iters_since_boundary>>

\* One iteration of the loop of the catalog programs whose timestamp
\* succeeds.
SendEventsCatalog ==
  /\ pc = "RUNNING"
  /\ variant \in {"inline", "global"}
  /\ ts_calls < MaxCalls
  /\ \E rd \in Readings, r \in RandSamples, send_ok \in BOOLEAN :
       CatalogStep(rd, r, send_ok, MaxCalls)

\* num_second_changes after the first if of an iteration that read rd.
CountedChanges(rd) ==
  IF SecondChanged(last_call_second, LocalTime(rd.sec).tm_sec)
  THEN num_second_changes + 1
  ELSE num_second_changes

\* What one iteration of the paced loop that read rd leaves in the
\* counters of send_events and the static of timestamp_rfc3339, and what
\* it prints; send_ok is the result of send.
PacedIteration(rd, send_ok) ==
  LET tm      == LocalTime(rd.sec)
      changed == SecondChanged(last_call_second, tm.tm_sec)
      nsc     == CountedChanges(rd)
      emit    == EmissionEnabled(nsc)
      nes     == IF emit /\ CountsSend(send_ok)
                 THEN num_events_sent + 1 ELSE num_events_sent
  IN  [last_call_second   |-> tm.tm_sec,
       second_changed     |-> changed,
       num_second_changes |-> nsc,
       emit               |-> emit,
       num_events_sent    |-> nes,
       printed            |-> IF ReportDue(changed, nsc)
                              THEN << [secs   |-> nsc,
                                       events |-> nes,
                                       avg    |-> Average(nes, nsc)] >>
                              ELSE << >>]

\* One successful iteration of the paced loop, with its bookkeeping; r1
\* and r2 are the results of rand() in generate_event.
PacedStep(rd, r1, r2, send_ok, cap) ==
  LET it  == PacedIteration(rd, send_ok)
      ts  == timestamp_text(variant, rd)
      len == EffectiveLength(BodyRequest(event_length), r1)
  IN  /\ CallSucceeds(rd, it.second_changed, cap)
      /\ timestamp' = ts
      /\ last_call_second' = it.last_call_second
      /\ second_changed' = it.second_changed
      /\ num_second_changes' = Capped(it.num_second_changes, cap)
      /\ num_events_sent' = Capped(it.num_events_sent, cap)
      /\ a_event_length' = IF it.emit THEN len ELSE a_event_length
      /\ syslog_event' = IF it.emit THEN generate_event(ts, len, r2)
                        ELSE syslog_event
      /\ printed' = it.printed
      /\ num_reports' = IF it.printed # << >>
                        THEN Capped(num_reports + 1, cap)
                        ELSE num_reports
      /\ wire_count' = IF it.emit THEN Capped(wire_count + 1, cap)
                       ELSE wire_count
      /\ wire_before' = IF it.emit THEN wire_count' - 1 ELSE wire_count'
      /\ send_failed' = (send_failed \/ (it.emit /\ ~send_ok))
      /\ first_boundary' = IF it.second_changed /\ first_boundary = -1
                           THEN rd.sec ELSE first_boundary
      /\ iters_since_boundary' = IF first_boundary' # -1
                                 THEN Capped(iters_since_boundary + 1, cap)
                                 ELSE iters_since_boundary
      /\ UNCHANGED <<config_vars, pc, main_vars, truncated,
                     failure_reported, clock_failed>>

\* The results of rand() and send an iteration that read rd draws: none
\* when it emits nothing, no length when the length is configured.
PacedDraws(rd, rands) ==
  IF ~EmissionEnabled(CountedChanges(rd))
  THEN {<<0, 0, TRUE>>}
  ELSE (IF BodyRequest(event_length) = 0 THEN rands ELSE {0})
         \X rands \X BOOLEAN

\* One iteration of the loop of the paced program whose timestamp succeeds.
SendEventsPaced ==
  /\ pc = "RUNNING"
  /\ variant = "paced"
  /\ ts_calls < MaxCalls
  /\ \E rd \in Readings :
       \E d \in PacedDraws(rd, RandSamples) :
         PacedStep(rd, d[1], d[2], d[3], MaxCalls)

\* Whether send_events leaves its loop when timestamp_rfc3339 returns -1.
BreaksOnFailure(v) == v \in {"global", "paced"}

\* A failed call that forgets the second the last call saw.
LastSecondForgotten(last) == -1

\* last_call_second after a call of timestamp_rfc3339 that returned -1.
LastSecondAfterFailure(last) == last

\* A call of timestamp_rfc3339 in which clock_gettime or localtime_r
\* fails: it returns -1, the output flag is false, the buffer and the
\* static are left alone.
TimestampReturnsError(cap) ==
  /\ ts_calls' = Capped(ts_calls + 1, cap)
  /\ to_return' = -1
  /\ clock_failed' = TRUE
  /\ second_changed' = FALSE
  /\ last_call_second' = LastSecondAfterFailure(last_call_second)
  /\ UNCHANGED <<clock, timestamp, ts_ok, ts_crossed, distinct_seconds>>

\* One iteration whose timestamp_rfc3339 returns -1.
FailureStep(cap) ==
  /\ TimestampReturnsError(cap)
  /\ wire_before' = wire_count
  /\ printed' = << >>
  /\ failure_reported' = (failure_reported \/ BreaksOnFailure(variant))
  /\ pc' = IF BreaksOnFailure(variant) THEN "STOPPED" ELSE pc
  /\ UNCHANGED <<config_vars, main_vars, num_second_changes,
                 num_events_sent, syslog_event, a_event_length,
                 wire_count, truncated, num_reports, send_failed,
                 first_boundary, iters_since_boundary>>

TimestampFailure ==
  /\ pc = "RUNNING"
  /\ ts_calls < MaxCalls
  /\ FailureStep(MaxCalls)

Next ==
  \/ MainInline
  \/ MainGlobal
  \/ MainPaced
  \/ Connect
  \/ SendEventsCatalog
  \/ SendEventsPaced
  \/ TimestampFailure

Spec == Init /\ [][Next]_vars

(* ----------------------- generate_event on its own -------------------- *)

\* generate_event is given every length process_argument_list lets
\* through, or -1.
HarnessInit ==
  /\ variant = "paced"
  /\ argv_length = << >>
  /\ pc = "harness"
  /\ event_length \in {-1} \cup (min_event_length .. max_event_length)
  /\ clock \in {[sec |-> s, usec |-> 0] : s \in HarnessSeconds}
  /\ Boot

\* One call of generate_event with a fresh timestamp.
GenerateEventCall ==
  /\ pc = "harness"
  /\ syslog_event = ""
  /\ \E u \in Usecs :
       LET rd      == [sec |-> clock.sec, usec |-> u]
           ts      == timestamp_text(variant, rd)
           request == BodyRequest(event_length)
       IN  /\ clock' = rd
           /\ timestamp' = ts
           /\ \E r1 \in (IF request = 0 THEN 0..RandBound ELSE {0}),
                 r2 \in 0..RandBound :
                LET len == EffectiveLength(request, r1)
                IN  /\ a_event_length' = len
                    /\ syslog_event' = generate_event(ts, len, r2)
  /\ UNCHANGED <<config_vars, pc, main_vars, last_call_second,
                 second_changed, num_second_changes, num_events_sent,
                 wire_count, wire_before, truncated, printed, num_reports,
                 failure_reported, clock_failed, ts_calls, ts_ok,
                 ts_crossed, distinct_seconds, to_return, send_failed,
                 first_boundary, iters_since_boundary>>

SynthNext == GenerateEventCall

SynthSpec == HarnessInit /\ [][SynthNext]_vars

(* ------------------ timestamp_rfc3339 called on its own --------------- *)

\* The paced timestamp_rfc3339 before its first call.
TsInit ==
  /\ variant = "paced"
  /\ argv_length = << >>
  /\ pc = "ts_harness"
  /\ event_length = -1
  /\ clock \in {[sec |-> s, usec |-> 0] : s \in StartSeconds}
  /\ Boot

\* A call that reads the clock and converts it.
TimestampCallSucceeds ==
  /\ pc = "ts_harness"
  /\ ts_calls < MaxCalls
  /\ \E rd \in Readings :
       LET tm      == LocalTime(rd.sec)
           changed == SecondChanged(last_call_second, tm.tm_sec)
       IN  /\ CallSucceeds(rd, changed, MaxCalls)
           /\ timestamp' = timestamp_text(variant, rd)
           /\ second_changed' = changed
           /\ last_call_second' = tm.tm_sec
  /\ UNCHANGED <<config_vars, pc, main_vars, num_second_changes,
                 num_events_sent, syslog_event, a_event_length,
                 wire_count, wire_before, truncated, printed, num_reports,
                 failure_reported, clock_failed, send_failed,
                 first_boundary, iters_since_boundary>>

\* A call in which the clock or the conversion is unavailable.
TimestampCallFails ==
  /\ pc = "ts_harness"
  /\ ts_calls < MaxCalls
  /\ TimestampReturnsError(MaxCalls)
  /\ UNCHANGED <<config_vars, pc, main_vars, num_second_changes,
                 num_events_sent, syslog_event, a_event_length,
                 wire_count, wire_before, truncated, printed, num_reports,
                 failure_reported, send_failed, first_boundary,
                 iters_since_boundary>>

TsNext == TimestampCallSucceeds \/ TimestampCallFails

TsSpec == TsInit /\ [][TsNext]_vars

(* --------------------- the paced loop without an end ------------------- *)

\* The loop of send_events has no bound on its iterations. To follow it
\* for ever in finitely many states, the history counters and the two
\* long counters of the loop stop at LiveCap, which keeps every test
\* the loop makes on them (>= 0, >= 1, % 1), and the clock is followed
\* modulo LivePeriod, two whole minutes, which keeps tm_sec.

LivePeriod == 2 * 60

LiveBase == 360 * LivePeriod

\* The readings a call can make after the reading in clock.
LiveReadings ==
  {[sec  |-> LiveBase + ((rd.sec - LiveBase) % LivePeriod),
    usec |-> rd.usec] : rd \in Readings}

\* The paced program started with --length 64 at LiveBase.
LiveInit ==
  /\ Init
  /\ variant = "paced"
  /\ argv_length = <<"64">>
  /\ clock.sec = LiveBase

\* One iteration of the paced loop whose timestamp succeeds.
LiveSendEvents ==
  /\ pc = "RUNNING"
  /\ \E rd \in LiveReadings :
       \E d \in PacedDraws(rd, {0}) :
         PacedStep(rd, d[1], d[2], d[3], LiveCap)

\* One iteration of the paced loop whose timestamp fails.
LiveTimestampFailure ==
  /\ pc = "RUNNING"
  /\ FailureStep(LiveCap)

\* The loop body runs again whenever the loop is RUNNING.
LiveIteration == LiveSendEvents \/ LiveTimestampFailure

LiveNext == MainPaced \/ Connect \/ LiveSendEvents \/ LiveTimestampFailure

LiveSpec == LiveInit /\ [][LiveNext]_vars /\ WF_vars(LiveIteration)

(* ------------------------------ properties ---------------------------- *)

\* The bytes of a message after its header and before its last byte.
BodyOf(msg, ts) == SubSeq(msg, Len(EventHeader(ts)) + 1, Len(msg) - 1)

\* The last byte of a message.
LastByte(msg) == SubSeq(msg, Len(msg), Len(msg))

\* msg is the header of ts, one catalog string, and a newline.
IsCatalogMessage(msg, ts) ==
  \E i \in 1..NUM_EVENTS_IN_EVENTLIST :
    msg = EventHeader(ts) \o EventCatalog[i] \o "\n"

\* C1: in length-driven mode, for every configured length L in 64..1024,
\* the event generate_event builds is exactly L bytes long: the 62-byte
\* header, L - 62 - 1 body bytes (one repeated letter), one trailing
\* newline.
C1_LengthDrivenTotal ==
  (pc = "harness" /\ event_length # -1 /\ syslog_event # "") =>
    LET L    == event_length
        body == BodyOf(syslog_event, timestamp)
    IN  /\ L \in 64..1024
        /\ Len(syslog_event) = L
        /\ Len(EventHeader(timestamp)) = 62
        /\ SubSeq(syslog_event, 1, 62) = EventHeader(timestamp)
        /\ Len(body) = L - 62 - 1
        /\ body = Rep(SubSeq(body, 1, 1), L - 62 - 1)
        /\ SubSeq(body, 1, 1) # "\n"
        /\ LastByte(syslog_event) = "\n"

\* C1 witness: the event built for L = 120 has a 57-byte body.
C1_Witness ==
  /\ pc = "harness"
  /\ event_length = 120
  /\ Len(syslog_event) = 120
  /\ Len(BodyOf(syslog_event, timestamp)) = 57

\* C2 (as claimed): in every variant, the iteration in which the timestamp
\* generator first fails reports the failure and leaves RUNNING for STOPPED,
\* and after a failure no timestamp is requested, no event is transmitted
\* and no counter changes.
C2_FailureStopsLoop ==
  [][ /\ (clock_failed' /\ ~clock_failed) =>
           (pc' = "STOPPED" /\ failure_reported')
      /\ clock_failed =>
           /\ ts_calls' = ts_calls
           /\ wire_count' = wire_count
           /\ num_events_sent' = num_events_sent
           /\ num_second_changes' = num_second_changes ]_vars

\* C3: in the pacing loop nothing is synthesized or transmitted and
\* events_sent stays 0 until the timestamp generator reports its first
\* crossing; the counter of crossings starts at -1, the first crossing
\* brings it to 0, and an iteration emits only with the counter >= 0.
C3_NoEmissionBeforeFirstCrossing ==
  variant = "paced" =>
    /\ ts_crossed = 0 =>
         /\ num_second_changes = -1
         /\ num_events_sent = 0
         /\ wire_count = 0
         /\ syslog_event = ""
    /\ ts_crossed >= 1 => num_second_changes = ts_crossed - 1
    /\ wire_count > wire_before => num_second_changes >= 0

\* C3 witness: two iterations have passed without an event, the third saw
\* the first crossing and sent the first event.
C3_Witness ==
  /\ variant = "paced"
  /\ ts_ok = 3
  /\ ts_crossed = 1
  /\ num_second_changes = 0
  /\ wire_count = 1
  /\ num_events_sent = 1

\* C4: a call of the paced timestamp_rfc3339 reports a crossing only if an
\* earlier call succeeded and the seconds field of this call differs from
\* the one the previous call read; the first call reports none whatever
\* the clock says, and a call that reads the same seconds field reports
\* none.
C4_CrossingOnlyAfterFirstCall ==
  [][ (variant = "paced" /\ ts_calls' = ts_calls + 1) =>
        LET this == LocalTime(clock'.sec).tm_sec
            prev == LocalTime(clock.sec).tm_sec
        IN  /\ second_changed' =>
                 (ts_ok >= 1 /\ ts_ok' = ts_ok + 1 /\ this # prev)
            /\ ts_ok = 0 => ~second_changed'
            /\ (ts_ok >= 1 /\ this = prev) => ~second_changed' ]_vars

\* C4 witness: the second successful call reported a crossing.
C4_Witness ==
  /\ variant = "paced"
  /\ ts_ok = 2
  /\ second_changed
  /\ ts_crossed = 1

\* C5 (as claimed): after N >= 1 successful calls under a non-decreasing
\* clock, the calls that reported a crossing number the distinct whole
\* seconds of the clock those calls observed, minus one.
C5_CrossingsCountDistinctSeconds ==
  (variant = "paced" /\ ts_ok >= 1) => ts_crossed = distinct_seconds - 1

\* C6 (as claimed): the average of the statistics line printed at the Nth
\* counted boundary is the number of messages transmitted during the N
\* seconds the report covers, that is before the iteration that observed
\* the Nth boundary, divided by N.
C6_AverageOfCoveredSeconds ==
  printed # << >> =>
    printed[1].avg = wire_before \div printed[1].secs

\* C6 (amended): the average printed at the Nth counted boundary is the
\* number of messages handed to the transport so far, the one sent in the
\* reporting iteration itself included, divided by N with integer
\* division; N >= 1.
C6_AverageOfAllSent ==
  printed # << >> =>
    /\ printed[1].secs = num_second_changes
    /\ printed[1].secs >= 1
    /\ printed[1].events = wire_count
    /\ printed[1].avg * printed[1].secs <= wire_count
    /\ wire_count < (printed[1].avg + 1) * printed[1].secs

\* C6 witness: the report of the 2nd counted boundary, 3 messages sent,
\* average 1.
C6_Witness ==
  /\ printed # << >>
  /\ printed[1].secs = 2
  /\ wire_count = 3
  /\ printed[1].avg = 1

\* C7: an event length below 64 or above 1024 is rejected by
\* process_argument_list before any connection attempt and before the
\* loop starts, so nothing is ever transmitted; 64 is accepted and gives a
\* body of 1 byte and the newline; 63 is rejected.
C7_LengthValidatedBeforeConnect ==
  (variant = "paced" /\ argv_length # << >>) =>
    LET L == atoi(argv_length[1])
    IN  /\ (L < 64 \/ L > 1024) =>
             /\ pc \in {"start", "exited"}
             /\ connect_attempts = 0
             /\ ts_calls = 0
             /\ wire_count = 0
        /\ (L = 63 /\ pc # "start") => pc = "exited"
        /\ L = 64 =>
             /\ ~invalid_length_reported
             /\ event_length \in {-1, 64}
             /\ pc \in {"RUNNING", "STOPPED"} => event_length = 64
             /\ wire_count > 0 =>
                  /\ Len(syslog_event) = 64
                  /\ Len(BodyOf(syslog_event, timestamp)) = 1
                  /\ LastByte(syslog_event) = "\n"

\* C7 witness: --length 63 was rejected as an invalid event length and the
\* process is over without a connection attempt.
C7_Witness ==
  /\ variant = "paced"
  /\ argv_length = <<"63">>
  /\ invalid_length_reported
  /\ pc = "exited"
  /\ connect_attempts = 0

\* C8: in every mode and variant a message handed to the transport is at
\* most 1024 bytes, fits the 1025-byte buffer with its terminator, and is
\* whole: no snprintf cut it, it ends with its newline, and under a
\* configured length it has that length.
C8_MessageFitsBuffer ==
  wire_count > 0 =>
    /\ Len(syslog_event) <= 1024
    /\ Len(syslog_event) + 1 <= 1025
    /\ ~truncated
    /\ LastByte(syslog_event) = "\n"
    /\ (variant = "paced" /\ event_length # -1) =>
         Len(syslog_event) = event_length

\* C8 witness: a message of the full 1024 bytes was sent.
C8_Witness ==
  /\ wire_count > 0
  /\ event_length = 1024
  /\ Len(syslog_event) = 1024

\* C9 (as claimed): whenever the event length is unset, the body of every
\* transmitted event is one of the 8 catalog strings, unpadded and uncut.
C9_UnsetLengthIsCatalog ==
  (event_length = -1 /\ wire_count > 0) =>
    IsCatalogMessage(syslog_event, timestamp)

\* C9 (amended): in the two programs without a length option the body of
\* every transmitted event is one of the 8 catalog strings, unpadded and
\* uncut; in the program with the length option an unset length gives a
\* synthesized body, never a catalog string.
C9_CatalogProgramsSendCatalog ==
  wire_count > 0 =>
    /\ variant \in {"inline", "global"} =>
         IsCatalogMessage(syslog_event, timestamp)
    /\ (variant = "paced" /\ event_length = -1) =>
         ~IsCatalogMessage(syslog_event, timestamp)

\* C9 witness: the program with the global catalog sent entry 5.
C9_Witness ==
  /\ variant = "global"
  /\ wire_count > 0
  /\ syslog_event = EventHeader(timestamp) \o EventCatalog[6] \o "\n"

\* C10: in random-in-range mode the total length chosen lies in 100..225,
\* every value of the range is chosen by some result of rand(), and the
\* event (62-byte header, body, newline) has exactly the chosen length.
C10_RandomLengthInRange ==
  /\ (pc = "harness" /\ event_length = -1 /\ syslog_event = "") =>
       \A v \in 100..225 :
         \E r \in 0..RandBound :
           EffectiveLength(BodyRequest(event_length), r) = v
  /\ (pc = "harness" /\ event_length = -1 /\ syslog_event # "") =>
       /\ a_event_length \in 100..225
       /\ Len(syslog_event) = a_event_length
       /\ Len(EventHeader(timestamp)) = 62
       /\ Len(BodyOf(syslog_event, timestamp)) = a_event_length - 62 - 1
       /\ LastByte(syslog_event) = "\n"

\* C10 witness: the largest length of the range, 225, was chosen and built.
C10_Witness ==
  /\ pc = "harness"
  /\ event_length = -1
  /\ a_event_length = 225
  /\ Len(syslog_event) = 225

\* C11 (as claimed): every variant of timestamp_rfc3339 renders the
\* microseconds as exactly 6 zero-padded decimal digits and a Z, so the
\* timestamp is 27 characters and fits the 28-byte buffer with its
\* terminator.
C11_SixZeroPaddedDigits ==
  timestamp # "" =>
    /\ Len(timestamp) + 1 <= 28
    /\ Len(timestamp) = 27
    /\ \A i \in 21..26 : IsDigit(SubSeq(timestamp, i, i))
    /\ SubSeq(timestamp, 27, 27) = "Z"

\* C12: a failed send is not told apart from a successful one. Every
\* iteration that reaches send calls it once, and whatever send returned
\* the paced loop adds exactly one to num_events_sent and stays RUNNING.
C12_SendResultIgnored ==
  [][wire_count' # wire_count =>
       /\ wire_count' = wire_count + 1
       /\ pc' = "RUNNING"
       /\ variant = "paced" =>
            /\ num_events_sent' = num_events_sent + 1
            /\ num_events_sent' = wire_count']_vars

\* A paced run in which send has failed, and which went on to send again.
C12_Witness ==
  /\ variant = "paced"
  /\ pc = "RUNNING"
  /\ send_failed
  /\ wire_count >= 2
  /\ num_events_sent = wire_count

\* C13 (as claimed): a synthesized body is one uppercase letter repeated,
\* and the letter ranges over all of 'A' (65) .. 'Z' (90): every one of the
\* 26 letters is the body character for some result of rand().
C13_BodyLetterFromFullAlphabet ==
  /\ (pc = "harness" /\ syslog_event # "") =>
       \E code \in 65..90 :
         BodyOf(syslog_event, timestamp) =
           Rep(AsciiUpper(code), Len(BodyOf(syslog_event, timestamp)) - 1)
             \o "\n"
  /\ (pc = "harness" /\ syslog_event = "") =>
       \A code \in 65..90 :
         \E r \in 0..RandBound : BodyChar(r) = AsciiUpper(code)

\* C14: the paced loop prints a statistics line in an iteration exactly
\* when that iteration's timestamp crossed a boundary and
\* num_second_changes, after its increment, is at least 1. So the first
\* crossing prints nothing, the lines printed so far number
\* max(num_second_changes, 0), and the divisor of the average is at
\* least 1.
C14_ReportExactlyOnLaterCrossings ==
  variant = "paced" =>
    /\ printed # << >> <=> (second_changed /\ num_second_changes >= 1)
    /\ (second_changed /\ num_second_changes = 0) => printed = << >>
    /\ num_reports = IF num_second_changes > 0 THEN num_second_changes
                     ELSE 0
    /\ printed # << >> =>
         /\ Len(printed) = 1
         /\ printed[1].secs = num_second_changes
         /\ printed[1].secs >= 1

\* The second statistics line has just been printed, after a first
\* crossing that printed none.
C14_Witness ==
  /\ variant = "paced"
  /\ printed # << >>
  /\ num_reports = 2
  /\ num_second_changes = 2
  /\ ts_crossed = 3

\* C16: in the catalog programs all NUM_EVENTS_IN_EVENTLIST entries of the
\* catalog are set before the loop makes its first selection, and the
\* catalog is never modified afterwards: every selection reads an
\* initialized, unchanged entry.
C16_CatalogInitializedAndFrozen ==
  [][/\ (variant \in {"inline", "global"} /\ pc' = "RUNNING") =>
          /\ Len(event_list') = NUM_EVENTS_IN_EVENTLIST
          /\ \A i \in 1..NUM_EVENTS_IN_EVENTLIST :
               event_list'[i] = EventCatalog[i] /\ event_list'[i] # ""
     /\ (pc # "RUNNING" /\ pc' = "RUNNING") => wire_count' = 0
     /\ event_list # NoEvents => event_list' = event_list
     /\ (variant \in {"inline", "global"} /\ wire_count' # wire_count) =>
          \E i \in 1..NUM_EVENTS_IN_EVENTLIST :
            syslog_event' =
              Snprintf(SYSLOG_MSG_MAXLENGTH,
                       EventHeader(timestamp') \o event_list[i] \o "\n")]_vars

\* A catalog program that has made two selections from its catalog.
C16_Witness ==
  /\ variant = "global"
  /\ pc = "RUNNING"
  /\ wire_count = 2
  /\ event_list = EventCatalog
  /\ IsCatalogMessage(syslog_event, timestamp)

\* C18: in the paced loop num_events_sent and num_second_changes never
\* decrease and grow by at most 1 per iteration, and num_events_sent is
\* always the number of iterations with a successful timestamp since, and
\* including, the one that observed the first boundary crossing.
C18_CountersMonotonicOnePerIteration ==
  [][variant = "paced" =>
       /\ num_events_sent' \in {num_events_sent, num_events_sent + 1}
       /\ num_second_changes' \in
            {num_second_changes, num_second_changes + 1}
       /\ num_events_sent' = iters_since_boundary'
       /\ (first_boundary' = -1) <=> (num_second_changes' = -1)]_vars

\* Three events sent within the second of the first crossing.
C18_Witness ==
  /\ variant = "paced"
  /\ ts_ok = 4
  /\ num_second_changes = 0
  /\ iters_since_boundary = 3
  /\ num_events_sent = 3

\* C17 (as claimed): the seconds-elapsed value of a statistics line is
\* the number of whole seconds of the clock elapsed since the first
\* observed boundary crossing, whatever the spacing of the iterations.
C17_SecondsElapsedIsWallClock ==
  (variant = "paced" /\ printed # << >>) =>
    printed[1].secs = clock.sec - first_boundary

\* C19: a call of timestamp_rfc3339 that fails returns -1, reports no
\* crossing and leaves last_call_second (and the buffer) as they were, so
\* a later successful call is compared against the second of the last
\* successful call, and still counts as the first call if none succeeded.
C19_FailedCallKeepsLastSecond ==
  [][/\ (ts_calls' # ts_calls /\ ts_ok' = ts_ok) =>
          /\ to_return' = -1
          /\ second_changed' = FALSE
          /\ last_call_second' = last_call_second
          /\ timestamp' = timestamp
     /\ (ts_calls' # ts_calls /\ ts_ok' # ts_ok) =>
          /\ to_return' = 0
          /\ second_changed' =
               (/\ ts_ok > 0
                /\ LocalTime(clock'.sec).tm_sec
                     # LocalTime(clock.sec).tm_sec)]_vars

\* A successful call, after a failed one, reported a crossing against the
\* second of the successful call before the failure.
C19_Witness ==
  /\ pc = "ts_harness"
  /\ clock_failed
  /\ ts_calls = 3
  /\ ts_ok = 2
  /\ ts_crossed = 1
  /\ second_changed
  /\ to_return = 0

\* C15 (as claimed): the loop is STOPPED only after a failure of the
\* timestamp generator; while the clock never fails a loop that started
\* stays RUNNING for ever, and if moreover the clock keeps advancing and
\* the loop keeps being scheduled, events are sent infinitely often and
\* statistics lines are printed infinitely often.
C15_RunsAndReportsForever ==
  /\ [](pc = "STOPPED" => clock_failed)
  /\ ([]~clock_failed /\ <>(pc = "RUNNING")) => <>[](pc = "RUNNING")
  /\ ([]~clock_failed /\ []<><<clock'.sec # clock.sec>>_vars) =>
       /\ []<>(wire_count > wire_before)
       /\ []<>(printed # << >>)

====
